---- MODULE Spec2Model ----
(***************************************************************************)
(* Model of Preprocessing.py: check_header, preprocessing (load, header    *)
(* resolution, irrelevant-column drop, character stripping, imputation,    *)
(* dummy encoding, data/label split) and the two projection wrappers pca   *)
(* and tsne.                                                               *)
(*                                                                         *)
(* Text is modelled as a sequence of one-character strings, so that        *)
(* parsing (int), formatting (str), substring removal (str.replace),       *)
(* concatenation (dummy and feature names) and ordering (mode, dummy       *)
(* order) are computed and not assumed.                                    *)
(*                                                                         *)
(* A dataframe is [index |-> number of rows, cols |-> sequence of columns] *)
(* and a column is [name, dtype, vals]; a cell is [t, n, s] with t one of  *)
(* "nan", "num", "str".                                                    *)
(*                                                                         *)
(* Library behaviour is the one the code was written against: pandas 1.x/  *)
(* 2.x without copy-on-write (the chained fillna(..., inplace=True) of     *)
(* lines 86 and 88 writes through to df) and a numpy whose float64 rounds  *)
(* to a Python int (round of a NaN mean raises ValueError).                *)
(***************************************************************************)
EXTENDS Integers, Sequences, FiniteSets, TLC

VARIABLES pc, file, fileHasHeader, missing_values, irrelevant_features,
          chars, categorical_features, header, df, hasHeader, names,
          snap, steps, result, reduced

vars == <<pc, file, fileHasHeader, missing_values, irrelevant_features,
          chars, categorical_features, header, df, hasHeader, names,
          snap, steps, result, reduced>>

(***************************************************************************)
(* Bounds of the model.                                                    *)
(***************************************************************************)
MaxRows == 3

MaxN == 2

(***************************************************************************)
(* Characters and text.                                                    *)
(***************************************************************************)
Lower == <<"a","b","c","d","e","f","g","h","i","j","k","l","m",
           "n","o","p","q","r","s","t","u","v","w","x","y","z">>

Upper == <<"A","B","C","D","E","F","G","H","I","J","K","L","M",
           "N","O","P","Q","R","S","T","U","V","W","X","Y","Z">>

Digits == <<"0","1","2","3","4","5","6","7","8","9">>

IndexIn(seq, c) == IF \E i \in 1..Len(seq) : seq[i] = c
                   THEN CHOOSE i \in 1..Len(seq) : seq[i] = c
                   ELSE 0

IsDigit(c) == IndexIn(Digits, c) # 0

DigitVal(c) == IndexIn(Digits, c) - 1

IsAlpha(c) == IndexIn(Lower, c) # 0 \/ IndexIn(Upper, c) # 0

IsSpace(c) == c = " "

\* code point of a character (the ones the inputs can contain)
Ord(c) == IF IndexIn(Lower, c) # 0 THEN 96 + IndexIn(Lower, c)
          ELSE IF IndexIn(Upper, c) # 0 THEN 64 + IndexIn(Upper, c)
          ELSE IF IsDigit(c) THEN 48 + DigitVal(c)
          ELSE CASE c = " " -> 32
                 [] c = "+" -> 43
                 [] c = "-" -> 45
                 [] c = "." -> 46
                 [] c = ":" -> 58
                 [] c = "?" -> 63
                 [] c = "_" -> 95
                 [] OTHER   -> 0

\* Python's < on str: lexicographic by code point
RECURSIVE StrLess(_, _)
StrLess(s, t) ==
    IF t = <<>> THEN FALSE
    ELSE IF s = <<>> THEN TRUE
    ELSE IF Ord(Head(s)) # Ord(Head(t)) THEN Ord(Head(s)) < Ord(Head(t))
    ELSE StrLess(Tail(s), Tail(t))

\* str(i) of a Python int
RECURSIVE NatStr(_)
NatStr(i) == IF i < 10 THEN <<Digits[i + 1]>>
             ELSE NatStr(i \div 10) \o <<Digits[(i % 10) + 1]>>

IntStr(i) == IF i < 0 THEN <<"-">> \o NatStr(0 - i) ELSE NatStr(i)

\* str(x) of a float holding an integral value: "2.0"
FloatStr(i) == IntStr(i) \o <<".", "0">>

\* value of a string of digits
RECURSIVE DigitsVal(_)
DigitsVal(s) == IF s = <<>> THEN 0
                ELSE 10 * DigitsVal(SubSeq(s, 1, Len(s) - 1)) + DigitVal(s[Len(s)])

RECURSIVE LStrip(_)
LStrip(s) == IF s # <<>> /\ IsSpace(Head(s)) THEN LStrip(Tail(s)) ELSE s

RECURSIVE RStrip(_)
RStrip(s) == IF s # <<>> /\ IsSpace(s[Len(s)])
             THEN RStrip(SubSeq(s, 1, Len(s) - 1)) ELSE s

Unsigned(s) == IF s # <<>> /\ Head(s) \in {"+", "-"} THEN Tail(s) ELSE s

\* digits, with single underscores allowed between digits (Python literal rule)
DigitGroups(s) ==
    /\ s # <<>>
    /\ IsDigit(s[1]) /\ IsDigit(s[Len(s)])
    /\ \A i \in 1..Len(s) : IsDigit(s[i]) \/ s[i] = "_"
    /\ \A i \in 1..(Len(s) - 1) : ~(s[i] = "_" /\ s[i + 1] = "_")

\* int(f) on a str returns (TRUE) or raises ValueError (FALSE)
IntParses(s) == DigitGroups(Unsigned(RStrip(LStrip(s))))

(***************************************************************************)
(* check_header (lines 10-32).                                             *)
(***************************************************************************)
\* the for loop of lines 23-29: the counter i when the loop ends; it stops
\* (break) at the first label int() accepts
RECURSIVE check_header_loop(_, _, _)
check_header_loop(columns, k, i) ==
    IF k > Len(columns) THEN i
    ELSE IF IntParses(columns[k]) THEN i + 1
    ELSE check_header_loop(columns, k + 1, i)

\* a plausible slip: only the first label is examined
check_header_first(columns) ==
    IF columns # <<>> /\ IntParses(columns[1]) THEN FALSE ELSE TRUE

check_header(columns) ==
    IF check_header_loop(columns, 1, 0) # 0 THEN FALSE ELSE TRUE

(***************************************************************************)
(* Cells, columns, dataframes.                                             *)
(***************************************************************************)
NaN == [t |-> "nan", n |-> 0, s |-> <<>>]

Num(i) == [t |-> "num", n |-> i, s |-> <<>>]

Txt(s) == [t |-> "str", n |-> 0, s |-> s]

EmptyDf == [index |-> 0, cols |-> <<>>]

Range(seq) == {seq[i] : i \in 1..Len(seq)}

ColNames(d) == [i \in 1..Len(d.cols) |-> d.cols[i].name]

\* number of columns of d labelled f
LabelCount(d, f) == Cardinality({i \in 1..Len(d.cols) : d.cols[i].name = f})

\* df.drop(f, axis=1) when f is a label of df: every column labelled f goes
DropLabel(d, f) == [d EXCEPT !.cols = SelectSeq(d.cols, LAMBDA c : c.name # f)]

\* df[f] when exactly one column is labelled f
Column(d, f) == d.cols[CHOOSE i \in 1..Len(d.cols) : d.cols[i].name = f]

(***************************************************************************)
(* pd.read_csv(f, na_values = missing_values) (line 58), header inferred:  *)
(* the first line gives the column labels, the other lines are the rows.   *)
(* The cells of the inputs are plain text or plain integers; fractional    *)
(* numbers are not among them, so a float64 column is an integer column    *)
(* with missing cells or a column with no value at all.                    *)
(***************************************************************************)
\* pandas' default missing-value tokens (those that matter for the inputs)
DefaultNA == { <<>>, <<"N","A">>, <<"N","a","N">>, <<"n","a","n">>,
               <<"n","u","l","l">>, <<"N","U","L","L">> }

IsNA(text, na_values) == text \in DefaultNA \cup Range(na_values)

IsIntText(s) == Unsigned(s) # <<>> /\ \A i \in 1..Len(Unsigned(s)) : IsDigit(Unsigned(s)[i])

IntTextVal(s) == IF Head(s) = "-" THEN 0 - DigitsVal(Unsigned(s)) ELSE DigitsVal(Unsigned(s))

Unnamed(k) == <<"U","n","n","a","m","e","d",":"," ">> \o NatStr(k - 1)

\* labels of the first line: an empty field is "Unnamed: k", a repeated
\* label gets ".1", ".2", ...
BaseLabel(line, k) == IF line[k] = <<>> THEN Unnamed(k) ELSE line[k]

CsvLabel(line, k) ==
    LET earlier == Cardinality({j \in 1..(k - 1) : BaseLabel(line, j) = BaseLabel(line, k)})
    IN  IF earlier = 0 THEN BaseLabel(line, k)
        ELSE BaseLabel(line, k) \o <<".">> \o NatStr(earlier)

CsvColumn(f, na_values, k) ==
    LET rows    == Tail(f)
        texts   == [r \in 1..Len(rows) |-> rows[r][k]]
        present == {r \in 1..Len(rows) : ~IsNA(texts[r], na_values)}
        numeric == \A r \in present : IsIntText(texts[r])
        dtype   == IF ~numeric THEN "object"
                   ELSE IF present = 1..Len(rows) THEN "int64" ELSE "float64"
    IN  [name  |-> CsvLabel(f[1], k),
         dtype |-> dtype,
         vals  |-> [r \in 1..Len(rows) |->
                      IF r \notin present THEN NaN
                      ELSE IF numeric THEN Num(IntTextVal(texts[r]))
                      ELSE Txt(texts[r])]]

read_csv(f, na_values) ==
    [index |-> Len(f) - 1,
     cols  |-> [k \in 1..Len(f[1]) |-> CsvColumn(f, na_values, k)]]

(***************************************************************************)
(* Header resolution (lines 61-66).                                        *)
(***************************************************************************)
ErrorNoHeader == "Error: the dataset has no header, please enter the columns names"

\* a plausible slip: a supplied header always wins
header_branch_supplied_first(has, hdr) ==
    IF Len(hdr) # 0 THEN "assign"
    ELSE IF has THEN "keep"
    ELSE "error"

\* a plausible slip: the last branch falls through instead of returning
header_branch_no_error(has, hdr) ==
    IF has THEN "keep"
    ELSE IF Len(hdr) # 0 THEN "assign"
    ELSE "keep"

\* which branch of the if / elif / else of lines 61-66 runs
header_branch(has, hdr) ==
    IF has THEN "keep"
    ELSE IF Len(hdr) # 0 THEN "assign"
    ELSE "error"

\* df.columns = header (line 64), for a header of the right length
SetColumns(d, hdr) ==
    [d EXCEPT !.cols = [k \in 1..Len(d.cols) |-> [d.cols[k] EXCEPT !.name = hdr[k]]]]

(***************************************************************************)
(* Dropping irrelevant columns (lines 70-71).                              *)
(***************************************************************************)
\* [ok, df]: ok is FALSE when df.drop raises KeyError (label not found)
RECURSIVE DropAll(_, _)
DropAll(d, feats) ==
    IF feats = <<>> THEN [ok |-> TRUE, df |-> d]
    ELSE IF LabelCount(d, Head(feats)) = 0 THEN [ok |-> FALSE, df |-> d]
    ELSE DropAll(DropLabel(d, Head(feats)), Tail(feats))

(***************************************************************************)
(* Stripping characters (lines 77-80).                                     *)
(***************************************************************************)
StartsWith(s, c) == Len(c) <= Len(s) /\ SubSeq(s, 1, Len(c)) = c

\* str.replace(c, '') with a literal c: every occurrence, left to right
RECURSIVE Replace(_, _)
Replace(s, c) ==
    IF c = <<>> \/ s = <<>> THEN s
    ELSE IF StartsWith(s, c) THEN Replace(SubSeq(s, Len(c) + 1, Len(s)), c)
    ELSE <<Head(s)>> \o Replace(Tail(s), c)

RECURSIVE ReplaceAll(_, _)
ReplaceAll(s, cs) == IF cs = <<>> THEN s ELSE ReplaceAll(Replace(s, Head(cs)), Tail(cs))

\* Series.str.replace leaves a missing cell missing
StripCell(v, cs) == IF v.t = "str" THEN Txt(ReplaceAll(v.s, cs)) ELSE v

StripColumn(col, cs) ==
    IF col.dtype = "object"
    THEN [col EXCEPT !.vals = [r \in 1..Len(col.vals) |-> StripCell(col.vals[r], cs)]]
    ELSE col

StripDf(d, cs) == [d EXCEPT !.cols = [k \in 1..Len(d.cols) |-> StripColumn(d.cols[k], cs)]]

\* line 77 evaluates df[f].dtypes == object as a condition: with a repeated
\* label df[f] is a frame and the condition raises ValueError
StripRaises(d) == \E k \in 1..Len(d.cols) : LabelCount(d, d.cols[k].name) > 1

(***************************************************************************)
(* Imputation (lines 83-88).                                               *)
(***************************************************************************)
Present(vals) == {r \in 1..Len(vals) : vals[r].t # "nan"}

RECURSIVE SumOver(_, _)
SumOver(vals, S) ==
    IF S = {} THEN 0
    ELSE LET r == CHOOSE x \in S : TRUE IN vals[r].n + SumOver(vals, S \ {r})

\* Series.mean() skips missing cells: MeanNum / MeanDen
MeanNum(vals) == SumOver(vals, Present(vals))

\* a plausible slip: the mean taken over all rows, missing ones included
MeanDenAllRows(vals) == Len(vals)

MeanDen(vals) == Cardinality(Present(vals))

\* Python 3 round(x) for x = num / den, den > 0: ties go to the even integer
PyRound(num, den) ==
    LET q == num \div den
        r == num % den
    IN  IF 2 * r < den THEN q
        ELSE IF 2 * r > den THEN q + 1
        ELSE IF q % 2 = 0 THEN q ELSE q + 1

\* order of the values of one column
CellLess(u, v) == IF u.t = "num" /\ v.t = "num" THEN u.n < v.n ELSE StrLess(u.s, v.s)

CountOf(vals, v) == Cardinality({r \in 1..Len(vals) : vals[r] = v})

\* Series.mode()[0]: the most frequent value, the smallest one among equals
Mode(vals) ==
    LET cands == {vals[r] : r \in Present(vals)}
        best  == {v \in cands : \A w \in cands : CountOf(vals, w) <= CountOf(vals, v)}
    IN  CHOOSE v \in best : \A w \in best \ {v} : CellLess(v, w)

FillNa(col, v) ==
    [col EXCEPT !.vals = [r \in 1..Len(col.vals) |->
                            IF col.vals[r].t = "nan" THEN v ELSE col.vals[r]]]

\* round() of a NaN mean raises ValueError; mode()[0] of no value raises too
ImputeRaises(col) == Present(col.vals) = {}

ImputeColumn(col) ==
    IF col.dtype = "float64"
    THEN FillNa(col, Num(PyRound(MeanNum(col.vals), MeanDen(col.vals))))
    ELSE FillNa(col, Mode(col.vals))

ImputeDf(d) ==
    IF \E k \in 1..Len(d.cols) : ImputeRaises(d.cols[k])
    THEN [ok |-> FALSE, df |-> d]
    ELSE [ok |-> TRUE,
          df |-> [d EXCEPT !.cols = [k \in 1..Len(d.cols) |-> ImputeColumn(d.cols[k])]]]

(***************************************************************************)
(* Encoding of the categorical features (lines 91-95).                     *)
(***************************************************************************)
RECURSIVE SortedCells(_)
SortedCells(S) ==
    IF S = {} THEN <<>>
    ELSE LET m == CHOOSE x \in S : \A y \in S \ {x} : CellLess(x, y)
         IN  <<m>> \o SortedCells(S \ {m})

\* str(value) as pandas writes it into a dummy's name
CellStr(dtype, v) ==
    IF v.t = "str" THEN v.s
    ELSE IF dtype = "float64" THEN FloatStr(v.n)
    ELSE IntStr(v.n)

\* pd.get_dummies(df[f], prefix=str(f)): one indicator per distinct value,
\* in sorted order of the values
get_dummies(col, f) ==
    LET cats == SortedCells(Range(col.vals))
    IN  [i \in 1..Len(cats) |->
           [name  |-> f \o <<"_">> \o CellStr(col.dtype, cats[i]),
            dtype |-> "uint8",
            vals  |-> [r \in 1..Len(col.vals) |->
                         Num(IF col.vals[r] = cats[i] THEN 1 ELSE 0)]]]

\* lines 92-95 for one feature f that labels exactly one column of d
EncodeOne(d, f) ==
    LET dummies == get_dummies(Column(d, f), f)
        cat     == [d EXCEPT !.cols = d.cols \o dummies]
    IN  DropLabel(DropLabel(cat, f), dummies[1].name)

\* df[f] raises KeyError when no column is labelled f.  (No input of the
\* model reaches this loop with a label f that is repeated in df.)
RECURSIVE EncodeAll(_, _)
EncodeAll(d, feats) ==
    IF feats = <<>> THEN [ok |-> TRUE, df |-> d]
    ELSE IF LabelCount(d, Head(feats)) = 0 THEN [ok |-> FALSE, df |-> d]
    ELSE EncodeAll(EncodeOne(d, Head(feats)), Tail(feats))

(***************************************************************************)
(* Separating labels and data (lines 101-104).                             *)
(***************************************************************************)
NoResult == [kind |-> "none", msg |-> "", nrows |-> 0, data |-> <<>>,
             label |-> [ndim |-> 1, cols |-> <<>>], names |-> <<>>]

ErrorResult == [NoResult EXCEPT !.kind = "error", !.msg = ErrorNoHeader]

Raised == [NoResult EXCEPT !.kind = "exception"]

\* data and label are kept column by column; df[label] with a repeated
\* label selects every column so labelled (a 2-D array), and drop(label)
\* removes every one of them
Split(d, nms) ==
    LET last == d.cols[Len(d.cols)].name
        lab  == SelectSeq(d.cols, LAMBDA c : c.name = last)
        rest == SelectSeq(d.cols, LAMBDA c : c.name # last)
    IN  [kind  |-> "tuple",
         msg   |-> "",
         nrows |-> d.index,
         data  |-> [k \in 1..Len(rest) |-> rest[k].vals],
         label |-> [ndim |-> IF Len(lab) = 1 THEN 1 ELSE 2,
                    cols |-> [k \in 1..Len(lab) |-> lab[k].vals]],
         names |-> nms]

(***************************************************************************)
(* pca and tsne (lines 107-138).                                           *)
(***************************************************************************)
FeaturePrefix == <<"f","e","a","t","u","r","e","_">>

\* a plausible slip: range(n) instead of range(1, n+1)
FeatureNamesFromZero(n) == [i \in 1..n |-> FeaturePrefix \o IntStr(i - 1)]

\* ["feature_"+str(i) for i in range(1,n+1)]
FeatureNames(n) == [i \in 1..n |-> FeaturePrefix \o IntStr(i)]

NoReduced == [kind |-> "none", by |-> "", n |-> 0, data |-> <<>>,
              label |-> [ndim |-> 1, cols |-> <<>>], names |-> <<>>]

IsNumericMatrix(data) ==
    \A k \in 1..Len(data) : \A r \in 1..Len(data[k]) : data[k][r].t = "num"

Min(a, b) == IF a < b THEN a ELSE b

\* what fit_transform requires of datalist[0]: a numeric 2-D array with at
\* least one row and one column
Fittable(t) ==
    /\ t.kind = "tuple"
    /\ t.nrows >= 1 /\ Len(t.data) >= 1
    /\ IsNumericMatrix(t.data)

\* PCA(n_components=n).fit_transform
PcaAccepts(t, n) == Fittable(t) /\ 0 <= n /\ n <= Min(t.nrows, Len(t.data))

\* TSNE(n_components=n).fit_transform (barnes_hut needs n < 4)
TsneAccepts(t, n) == Fittable(t) /\ 1 <= n /\ n < 4

\* the fitted projection is the library's: any values, n columns, one row
\* per input row
ProjVals == {0, 1}

Projected(t, n, v) == [k \in 1..n |-> [r \in 1..t.nrows |-> Num(v)]]

(***************************************************************************)
(* Inputs: the file (its lines, each a sequence of fields) and the         *)
(* arguments of preprocessing.  fileHasHeader records whether the first    *)
(* line of the file is a header line or already a data row.  snap keeps    *)
(* the dataframe as it was after the load, the drop, the stripping and the *)
(* imputation, and steps the steps that ran: both only record the run.     *)
(***************************************************************************)
S_a == <<"a">>

S_c == <<"c">>

S_a_x == <<"a", "_", "x">>

S_a_y == <<"a", "_", "y">>

\* data rows: a textual column then a numeric one
Rows == { << <<"x">>, <<"1">> >>,
          << <<"y">>, <<"2">> >>,
          << <<" ", "?">>, <<"4">> >>,
          << <<"?">>, <<>> >> }

\* header lines: plain names, names that meet a dummy's name, and a
\* numeric-looking name
Headers == { <<S_a, S_c>>, <<S_a, S_a_x>>, <<S_a, S_a_y>>, << <<"1">>, S_c >> }

SeqsUpTo(S, n) == UNION {[1..k -> S] : k \in 1..n}

MissingOptions == { <<>>, << <<"?">> >> }

CharsOptions == { <<>>, << <<" ">> >> }

IrrelevantOptions == { <<>>, <<S_a>> }

CategoricalOptions == { <<>>, <<S_a>>, <<S_c>>, <<S_c, S_a>> }

HeaderOptions == { <<>>, <<S_a, S_c>>, <<S_a>> }

\* rows of data the file holds
InputRows == IF fileHasHeader THEN Len(file) - 1 ELSE Len(file)

Init ==
    /\ pc = "load"
    /\ fileHasHeader \in BOOLEAN
    /\ \E first \in (IF fileHasHeader THEN Headers ELSE Rows) :
         \E rest \in SeqsUpTo(Rows, MaxRows) : file = <<first>> \o rest
    /\ missing_values \in MissingOptions
    /\ irrelevant_features \in IrrelevantOptions
    /\ chars \in CharsOptions
    /\ categorical_features \in CategoricalOptions
    /\ header \in HeaderOptions
    /\ df = EmptyDf
    /\ hasHeader = FALSE
    /\ names = <<>>
    /\ snap = [loaded |-> EmptyDf, dropped |-> EmptyDf, stripped |-> EmptyDf,
               imputed |-> EmptyDf]
    /\ steps = <<>>
    /\ result = NoResult
    /\ reduced = NoReduced

args == <<file, fileHasHeader, missing_values, irrelevant_features, chars,
          categorical_features, header>>

(***************************************************************************)
(* preprocessing, step by step.                                            *)
(***************************************************************************)
\* an exception leaves preprocessing: nothing is returned
Raise(step) ==
    /\ pc' = "raised"
    /\ steps' = Append(steps, step)
    /\ result' = Raised
    /\ UNCHANGED <<df, names, snap, reduced>>

\* line 58
Load ==
    /\ pc = "load"
    /\ df' = read_csv(file, missing_values)
    /\ snap' = [snap EXCEPT !.loaded = df']
    /\ pc' = "header"
    /\ steps' = Append(steps, "load")
    /\ UNCHANGED <<args, hasHeader, names, result, reduced>>

\* lines 61-66
SetHeader ==
    /\ pc = "header"
    /\ hasHeader' = check_header(ColNames(df))
    /\ LET branch == header_branch(hasHeader', header)
       IN  CASE branch = "keep" ->
                  /\ pc' = "drop"
                  /\ steps' = Append(steps, "header")
                  /\ UNCHANGED <<df, names, snap, result, reduced>>
             [] branch = "assign" ->
                  IF Len(header) # Len(df.cols)
                  THEN Raise("header")
                  ELSE /\ df' = SetColumns(df, header)
                       /\ pc' = "drop"
                       /\ steps' = Append(steps, "header")
                       /\ UNCHANGED <<names, snap, result, reduced>>
             [] OTHER ->
                  /\ result' = ErrorResult
                  /\ pc' = "returned"
                  /\ steps' = Append(steps, "header")
                  /\ UNCHANGED <<df, names, snap, reduced>>
    /\ UNCHANGED args

\* lines 70-74
Drop ==
    /\ pc = "drop"
    /\ LET r == DropAll(df, irrelevant_features)
       IN  IF ~r.ok THEN Raise("drop")
           ELSE /\ df' = r.df
                /\ names' = ColNames(r.df)
                /\ snap' = [snap EXCEPT !.dropped = r.df]
                /\ pc' = "strip"
                /\ steps' = Append(steps, "drop")
                /\ UNCHANGED <<result, reduced>>
    /\ UNCHANGED <<args, hasHeader>>

\* lines 77-80
Strip ==
    /\ pc = "strip"
    /\ IF StripRaises(df) THEN Raise("strip")
       ELSE /\ df' = StripDf(df, chars)
            /\ snap' = [snap EXCEPT !.stripped = df']
            /\ pc' = "impute"
            /\ steps' = Append(steps, "strip")
            /\ UNCHANGED <<names, result, reduced>>
    /\ UNCHANGED <<args, hasHeader>>

\* lines 83-88
Impute ==
    /\ pc = "impute"
    /\ LET r == ImputeDf(df)
       IN  IF ~r.ok THEN Raise("impute")
           ELSE /\ df' = r.df
                /\ snap' = [snap EXCEPT !.imputed = r.df]
                /\ pc' = "encode"
                /\ steps' = Append(steps, "impute")
                /\ UNCHANGED <<names, result, reduced>>
    /\ UNCHANGED <<args, hasHeader>>

\* lines 91-98
Encode ==
    /\ pc = "encode"
    /\ LET r == EncodeAll(df, categorical_features)
       IN  IF ~r.ok THEN Raise("encode")
           ELSE /\ df' = r.df
                /\ names' = ColNames(r.df)
                /\ pc' = "split"
                /\ steps' = Append(steps, "encode")
                /\ UNCHANGED <<snap, result, reduced>>
    /\ UNCHANGED <<args, hasHeader>>

\* lines 101-104 (df.columns[-1] of a frame without columns raises)
SplitStep ==
    /\ pc = "split"
    /\ IF df.cols = <<>> THEN Raise("split")
       ELSE /\ result' = Split(df, names)
            /\ pc' = "returned"
            /\ steps' = Append(steps, "split")
            /\ UNCHANGED <<df, names, snap, reduced>>
    /\ UNCHANGED <<args, hasHeader>>

(***************************************************************************)
(* The caller hands what preprocessing returned to pca or tsne.            *)
(***************************************************************************)
Reduce(by, accepted, n, v) ==
    /\ IF accepted
       THEN /\ reduced' = [kind  |-> "tuple", by |-> by, n |-> n,
                           data  |-> Projected(result, n, v),
                           label |-> result.label,
                           names |-> FeatureNames(n)]
            /\ pc' = "reduced"
       ELSE /\ reduced' = [NoReduced EXCEPT !.kind = "exception", !.by = by]
            /\ pc' = "raised"
    /\ steps' = Append(steps, by)
    /\ UNCHANGED <<args, df, hasHeader, names, snap, result>>

\* lines 119-121
Pca ==
    /\ pc = "returned"
    /\ \E n \in 0..MaxN : \E v \in ProjVals :
         Reduce("pca", PcaAccepts(result, n), n, v)

\* lines 136-138; whether the library's perplexity check lets so small a
\* sample through depends on its version
Tsne ==
    /\ pc = "returned"
    /\ \E n \in 0..MaxN : \E v \in ProjVals : \E samplesOk \in BOOLEAN :
         Reduce("tsne", TsneAccepts(result, n) /\ samplesOk, n, v)

Next ==
    \/ Load
    \/ SetHeader
    \/ Drop
    \/ Strip
    \/ Impute
    \/ Encode
    \/ SplitStep
    \/ Pca
    \/ Tsne

Spec == Init /\ [][Next]_vars

(***************************************************************************)
(* Properties.                                                             *)
(***************************************************************************)
Ran(step) == step \in Range(steps)

Cleaned == pc = "returned" /\ result.kind = "tuple"

LaterSteps == {"drop", "strip", "impute", "encode", "split"}

\* C1: when check_header reported no header for the loaded labels and the
\* header argument is empty, preprocessing returns the error string "Error:
\* the dataset has no header, please enter the columns names", never a
\* cleaned tuple, and none of drop, strip, impute, encode, split runs.
C1_NoHeaderIsError ==
    (Ran("header") /\ ~hasHeader /\ Len(header) = 0) =>
        /\ result.kind = "error"
        /\ result.msg = "Error: the dataset has no header, please enter the columns names"
        /\ result.data = <<>> /\ result.names = <<>>
        /\ \A st \in LaterSteps : ~Ran(st)

\* a headerless file, no header argument: the error string has been returned
C1_Witness ==
    /\ pc = "returned" /\ ~fileHasHeader /\ header = <<>>
    /\ result.kind = "error" /\ steps = <<"load", "header">>

AllAlphabetic(s) == s # <<>> /\ \A i \in 1..Len(s) : IsAlpha(s[i])

PurelyNumeric(s) == s # <<>> /\ \A i \in 1..Len(s) : IsDigit(s[i])

LoadedLabels == ColNames(snap.loaded)

\* C2: check_header returns True when every loaded column label is
\* alphabetic, and False when at least one label is purely numeric,
\* wherever that label stands and whatever the other labels are.
C2_HeaderDetection ==
    Ran("header") =>
        /\ (\A k \in 1..Len(LoadedLabels) : AllAlphabetic(LoadedLabels[k])) => hasHeader
        /\ (\E k \in 1..Len(LoadedLabels) : PurelyNumeric(LoadedLabels[k])) => ~hasHeader

\* the numeric label stands after an alphabetic one
C2_Witness ==
    /\ Ran("header") /\ ~hasHeader
    /\ Len(LoadedLabels) = 2
    /\ AllAlphabetic(LoadedLabels[1]) /\ PurelyNumeric(LoadedLabels[2])

C10_Abs(i) == IF i < 0 THEN 0 - i ELSE i

RECURSIVE C10_Sum(_, _)
C10_Sum(vals, r) ==
    IF r = 0 THEN 0
    ELSE C10_Sum(vals, r - 1) + (IF vals[r].t = "nan" THEN 0 ELSE vals[r].n)

C10_Count(vals) == Cardinality({r \in 1..Len(vals) : vals[r].t # "nan"})

C8_Name(i) == <<"f", "e", "a", "t", "u", "r", "e", "_", Digits[i + 1]>>

\* C8: a call of pca or tsne that the projection routine accepts returns the
\* input's label vector, the names feature_1 .. feature_n in order and a
\* matrix of n columns, and leaves the input tuple as it was.
C8_ReducedTuple ==
    [][(pc = "returned" /\ pc' = "reduced") =>
          /\ result' = result
          /\ reduced'.kind = "tuple"
          /\ reduced'.label = result.label
          /\ Len(reduced'.names) = reduced'.n
          /\ \A i \in 1..reduced'.n : reduced'.names[i] = C8_Name(i)
          /\ Len(reduced'.data) = reduced'.n
          /\ \A k \in 1..reduced'.n : Len(reduced'.data[k]) = result.nrows]_vars

\* a projection to two features has returned
C8_Witness ==
    /\ pc = "reduced" /\ reduced.kind = "tuple" /\ reduced.n = 2
    /\ result.kind = "tuple" /\ reduced.label = result.label

\* the label column: the last column left after the irrelevant ones went
LabelName == snap.dropped.cols[Len(snap.dropped.cols)].name

C3_IsIndicatorOf(vec, vals) ==
    \E v \in Range(vals) :
        vec = [r \in 1..Len(vals) |-> Num(IF vals[r] = v THEN 1 ELSE 0)]

\* C3: in every cleaned tuple the last name denotes the label column (its
\* name, or an indicator named after it when the label column is itself
\* categorical) and the label vector holds that column's cleaned values (or
\* that indicator's), whatever categorical_features lists.
C3_LastNameIsLabel ==
    Cleaned =>
        LET last   == result.names[Len(result.names)]
            labcol == Column(snap.imputed, LabelName).vals
        IN  /\ result.label.ndim = 1
            /\ \/ last = LabelName /\ result.label.cols[1] = labcol
               \/ /\ StartsWith(last, LabelName \o <<"_">>)
                  /\ C3_IsIndicatorOf(result.label.cols[1], labcol)

C4_Cells ==
    {result.data[k][r] : k \in 1..Len(result.data), r \in 1..result.nrows}
        \cup {result.label.cols[k][r] : k \in 1..Len(result.label.cols),
                                        r \in 1..result.nrows}

\* C4: no cell of a cleaned tuple's feature matrix or label vector is
\* missing or equal to one of the caller's missing-value tokens.
C4_NoMissingLeft ==
    Cleaned =>
        \A v \in C4_Cells :
            /\ v.t # "nan"
            /\ v.t = "str" => v.s \notin Range(missing_values)

C5_Distinct(col) == Cardinality(Range(col.vals))

C5_Indicators(d, f) ==
    {i \in 1..Len(d.cols) : /\ d.cols[i].dtype = "uint8"
                            /\ StartsWith(d.cols[i].name, f \o <<"_">>)}

\* C5: right after the encoding step, every feature listed in
\* categorical_features, with k distinct values after imputation, is gone
\* and has exactly k-1 indicator columns named after it, and every column
\* that is not listed is still there, unaltered.
C5_DropFirstEncoding ==
    pc = "split" =>
        /\ \A f \in Range(categorical_features) :
              /\ LabelCount(df, f) = 0
              /\ Cardinality(C5_Indicators(df, f))
                     = C5_Distinct(Column(snap.imputed, f)) - 1
        /\ \A k \in 1..Len(snap.imputed.cols) :
              snap.imputed.cols[k].name \notin Range(categorical_features)
                  => snap.imputed.cols[k] \in Range(df.cols)

\* C6: in every cleaned tuple the feature matrix and the label vector have
\* as many rows as the input file has data rows, whether the header is the
\* file's or the header argument.
C6_RowsPreserved ==
    Cleaned =>
        /\ result.nrows = InputRows
        /\ \A k \in 1..Len(result.data) : Len(result.data[k]) = InputRows
        /\ \A k \in 1..Len(result.label.cols) : Len(result.label.cols[k]) = InputRows

\* C7: in every cleaned tuple the feature matrix has one column less than
\* there are names.
C7_ColumnsMatchNames ==
    Cleaned => Len(result.data) = Len(result.names) - 1

====
